---- MODULE Spec2Model ----
(***************************************************************************)
(* HeatWise: compatibility scoring (meetings/geolocation_meetings.py,      *)
(* meetings/virtual_meetings.py, meetings/speed_dating.py), the meeting    *)
(* roster, the consent table (users_data.py) and moderation               *)
(* (src/services/moderation.py), as one state machine over the module-    *)
(* level dictionaries of the program.                                      *)
(*                                                                         *)
(* Numbers are exact rationals <<n, d>> with d > 0, kept in lowest terms.  *)
(* Python's None is the empty tuple.  A dictionary is a function whose     *)
(* DOMAIN is its key set; a dictionary whose iteration order is observed   *)
(* (user_flags) is a sequence of entries in insertion order.  Strings      *)
(* whose characters are inspected are sequences of one-character strings.  *)
(***************************************************************************)
EXTENDS Integers, Sequences, FiniteSets, TLC

\* ---------------------------------------------------------------- bounds
MaxUser == 2          \* user ids are 1..MaxUser
MaxTag == 2           \* interest tags are 1..MaxTag
MaxLen == 2           \* longest interest list
MaxMeetings == 3      \* create_meeting is not called on a roster this large
MaxParticipants == 2  \* longest participant list
MaxFlags == 4         \* flag_user is not called on a counter this large
MaxPieces == 1        \* a message is at most this many pieces

Users == 1..MaxUser
Tags == 1..MaxTag
MeetingIds == 1..(MaxMeetings + 1)

RECURSIVE SeqsUpTo(_, _)
SeqsUpTo(S, n) ==
    IF n = 0 THEN {<<>>}
    ELSE LET shorter == SeqsUpTo(S, n - 1)
         IN  shorter \cup {Append(s, x) : s \in shorter, x \in S}

Range(s) == {s[i] : i \in 1..Len(s)}

InterestLists == SeqsUpTo(Tags, MaxLen)
ParticipantLists == SeqsUpTo(Users, MaxParticipants)

\* ------------------------------------------------------- exact arithmetic
None == <<>>
TypeError == <<"TypeError">>

Abs(x) == IF x < 0 THEN -x ELSE x

RECURSIVE GCD(_, _)
GCD(a, b) == IF b = 0 THEN a ELSE GCD(b, a % b)

Rat(n, d) ==
    LET g == GCD(Abs(n), d)
    IN  IF n = 0 THEN <<0, 1>> ELSE <<n \div g, d \div g>>

RatAdd(a, b) == Rat(a[1] * b[2] + b[1] * a[2], a[2] * b[2])
RatMul(a, b) == Rat(a[1] * b[1], a[2] * b[2])
RatLE(a, b) == a[1] * b[2] <= b[1] * a[2]
RatEq(a, b) == a[1] * b[2] = b[1] * a[2]
RatHalf(a) == Rat(a[1], a[2] * 2)

Zero == <<0, 1>>
One == <<1, 1>>
IsNumber(v) == Len(v) = 2

\* Python's * and + on an operand that may be None: None raises TypeError,
\* and a raised error propagates through the rest of the expression.
PyMul(x, w) == IF ~IsNumber(x) THEN TypeError ELSE RatMul(x, w)
PyAdd(x, y) == IF ~IsNumber(x) \/ ~IsNumber(y) THEN TypeError ELSE RatAdd(x, y)

VARIABLES
    user_data,      \* users_data.user_data: user id -> record
    users_consent,  \* users_data.users_consent: user id -> consent
    blocked_users,  \* users_data.blocked_users: user id -> reason
    locations,      \* geolocation store read by get_user_location
    meetings,       \* virtual_meetings.meetings: meeting id -> participant list
    user_flags,     \* moderation.user_flags, entries in insertion order
    flag_calls,     \* history: number of flag_user calls made per user id
    result          \* the last call: operation, arguments, outcome, prints, calls

vars == <<user_data, users_consent, blocked_users, locations, meetings,
          user_flags, flag_calls, result>>

stores == <<user_data, users_consent, blocked_users, locations, meetings,
            user_flags>>

EmptyDict == [k \in {} |-> None]

Put(dict, k, v) == [x \in DOMAIN dict \cup {k} |-> IF x = k THEN v ELSE dict[x]]
Del(dict, k) == [x \in DOMAIN dict \ {k} |-> dict[x]]

Call(op, args, kind, value, out, calls) ==
    [op |-> op, args |-> args, kind |-> kind, value |-> value,
     out |-> out, calls |-> calls]

Init ==
    /\ user_data = EmptyDict
    /\ users_consent = EmptyDict
    /\ blocked_users = EmptyDict
    /\ locations = EmptyDict
    /\ meetings = EmptyDict
    /\ user_flags = <<>>
    /\ flag_calls = [u \in Users |-> 0]
    /\ result = Call("init", <<>>, "return", None, <<>>, <<>>)


\* ------------------------------------------------------------ users_data
DictGet(dict, k, default) == IF k \in DOMAIN dict THEN dict[k] ELSE default

\* None and the empty dictionary are both the empty function: "not x" holds
\* of both, and subscripting either raises.
Falsy(x) == DOMAIN x = {}
IsNone(x) == DOMAIN x = {}

DefaultUserRecord ==
    [games_preferences |-> <<>>, speed_dating_schedule |-> <<>>,
     blind_matching_schedule |-> <<>>, games_schedule |-> <<>>]

UserInfos == {[name |-> "a", interests |-> <<1>>]}

create_user(user_id, user_info) ==
    /\ IF user_id \notin DOMAIN user_data
       THEN /\ user_data' = Put(user_data, user_id, Put(user_info, "interests", <<>>))
            /\ result' = Call("create_user", <<user_id>>, "return", None, <<>>, <<>>)
       ELSE /\ user_data' = user_data
            /\ result' = Call("create_user", <<user_id>>, "return", None,
                              <<"Error: already exists">>, <<>>)
    /\ UNCHANGED <<users_consent, blocked_users, locations, meetings,
                   user_flags, flag_calls>>

\* get_user_data / get_user_location are imported from users_data but not
\* defined there: the directory and geolocation-store lookups of the
\* external interfaces, returning the record or None.
get_user_data(user_id) == DictGet(user_data, user_id, None)
get_user_location(user_id) == DictGet(locations, user_id, None)

\* Latitudes in hundredths of a degree on the meridian of longitude 0.
Latitudes == {0, 9}
Location(lat) == [latitude |-> lat, longitude |-> 0]

update_user_location(user_id, lat) ==
    /\ locations' = Put(locations, user_id, Location(lat))
    /\ result' = Call("update_user_location", <<user_id>>, "return", None, <<>>, <<>>)
    /\ UNCHANGED <<user_data, users_consent, blocked_users, meetings,
                   user_flags, flag_calls>>

\* -------------------------------------------------- geolocation_meetings
EarthRadiusKm == 6371
NearKm == 10
PiNum == 355
PiDen == 113

JaccardOr(a, b, neutral) ==
    LET common == Range(a) \cap Range(b)
        all == Range(a) \cup Range(b)
    IN  IF Cardinality(all) > 0 THEN Rat(Cardinality(common), Cardinality(all))
        ELSE neutral

compare_interests(user1_interests, user2_interests) ==
    LET common_interests == Range(user1_interests) \cap Range(user2_interests)
        all_interests == Range(user1_interests) \cup Range(user2_interests)
    IN  IF all_interests = {} THEN Rat(1, 2)
        ELSE Rat(Cardinality(common_interests), Cardinality(all_interests))

\* the body is a docstring only: the call evaluates to None
compare_psychological_traits(user1_traits, user2_traits) == None

\* Haversine on two points of equal longitude: a = sin^2(dlat/2), so
\* c = |dlat| in radians and distance = R * pi * |dlat_degrees| / 180.
calculate_distance(loc1, loc2) ==
    Rat(EarthRadiusKm * PiNum * Abs(loc2.latitude - loc1.latitude),
        PiDen * 180 * 100)

proximity_of(distance) == IF RatLE(distance, <<NearKm, 1>>) THEN One ELSE Rat(1, 10)

WeightProximity == <<3, 10>>
WeightInterests == <<2, 5>>
WeightTraits == <<3, 10>>

\* variant: only the first user's location is tested
LocationsMissing_first(location1, location2) == Falsy(location1)
LocationsMissing(location1, location2) == Falsy(location1) \/ Falsy(location2)

\* interest lists carried by the user objects handed to the geolocation
\* implementation: empty, single, disjoint, overlapping, with a repeated tag
ObjectInterests == {<<>>, <<1>>, <<2>>, <<1, 2>>, <<2, 2>>}
UserObjects == [user_id : Users, interests : ObjectInterests, traits : {<<"calm">>}]

geo_compatibility(user1, user2) ==
    LET location1 == get_user_location(user1.user_id)
        location2 == get_user_location(user2.user_id)
        ids == <<user1.user_id, user2.user_id>>
    IN  IF LocationsMissing(location1, location2)
        THEN Call("geo_compatibility", ids, "return", Zero,
                  <<"Could not retrieve user locations.">>, <<>>)
        ELSE IF IsNone(location1) \/ IsNone(location2)
        THEN \* subscripting None
             Call("geo_compatibility", ids, "raise", TypeError, <<>>, <<>>)
        ELSE
        LET distance == calculate_distance(location1, location2)
            proximity_score == proximity_of(distance)
            interests_score == compare_interests(user1.interests, user2.interests)
            traits_score == compare_psychological_traits(user1.traits, user2.traits)
            compatibility_rate ==
                PyAdd(PyAdd(PyMul(proximity_score, WeightProximity),
                            PyMul(interests_score, WeightInterests)),
                      PyMul(traits_score, WeightTraits))
            calls == << <<"calculate_distance", proximity_score>>,
                        <<"compare_interests", interests_score>>,
                        <<"compare_psychological_traits", traits_score>> >>
        IN  IF compatibility_rate = TypeError
            THEN Call("geo_compatibility", ids, "raise", TypeError, <<>>, calls)
            ELSE Call("geo_compatibility", ids, "return", compatibility_rate, <<>>, calls)

get_meeting_compatibility_geo(user1, user2) ==
    /\ result' = geo_compatibility(user1, user2)
    /\ UNCHANGED <<user_data, users_consent, blocked_users, locations, meetings,
                   user_flags, flag_calls>>

Threshold == <<7, 10>>
\* variant: a strict comparison with the threshold
ShouldSchedule_strict(compatibility_rate) == ~RatLE(compatibility_rate, Threshold)
ShouldSchedule(compatibility_rate) == RatLE(Threshold, compatibility_rate)

RateHundredths == {0, 3, 69, 70, 71, 100}

schedule_meeting(user1, user2, compatibility_rate) ==
    /\ result' = Call("schedule_meeting", <<user1, user2, compatibility_rate>>,
                      "return", None,
                      IF ShouldSchedule(compatibility_rate)
                      THEN <<"Meeting scheduled">> ELSE <<"Meeting not scheduled">>,
                      <<>>)
    /\ UNCHANGED <<user_data, users_consent, blocked_users, locations, meetings,
                   user_flags, flag_calls>>

\* ------------------------------------------------------ virtual_meetings
\* compare_interests / compare_psychological_traits as imported from
\* users_data (not defined there): the interest scorer of the design and a
\* pluggable trait provider whose answer is an input.
ud_compare_interests(a, b) == JaccardOr(a, b, Rat(1, 2))
\* numeric answers of the provider, inside and outside [0, 1]
TraitValues == {Rat(n, 2) : n \in -1..3}

RatMax(a, b) == IF RatLE(a, b) THEN b ELSE a
RatMin(a, b) == IF RatLE(a, b) THEN a ELSE b
Clamp(total) == RatMin(RatMax(total, Zero), One)

RecordsMissing(user1_data, user2_data) == Falsy(user1_data) \/ Falsy(user2_data)

virtual_compatibility(user_id1, user_id2, traits_compatibility) ==
    LET user1_data == get_user_data(user_id1)
        user2_data == get_user_data(user_id2)
        ids == <<user_id1, user_id2>>
    IN  IF RecordsMissing(user1_data, user2_data)
        THEN Call("virtual_compatibility", ids, "return", Zero, <<>>, <<>>)
        ELSE IF IsNone(user1_data) \/ IsNone(user2_data)
        THEN \* None has no .get
             Call("virtual_compatibility", ids, "raise", <<"AttributeError">>, <<>>, <<>>)
        ELSE
        LET interests_compatibility ==
                ud_compare_interests(DictGet(user1_data, "interests", <<>>),
                                     DictGet(user2_data, "interests", <<>>))
            sum == PyAdd(interests_compatibility, traits_compatibility)
            calls == << <<"compare_interests", interests_compatibility>>,
                        <<"compare_psychological_traits", traits_compatibility>> >>
        IN  IF sum = TypeError
            THEN Call("virtual_compatibility", ids, "raise", TypeError, <<>>, calls)
            ELSE Call("virtual_compatibility", ids, "return", Clamp(RatHalf(sum)),
                      <<>>, calls)

get_meeting_compatibility_virtual(user_id1, user_id2, traits_compatibility) ==
    /\ result' = virtual_compatibility(user_id1, user_id2, traits_compatibility)
    /\ UNCHANGED <<user_data, users_consent, blocked_users, locations, meetings,
                   user_flags, flag_calls>>

\* -------------------------------------------------------- speed_dating
\* the interests term of get_speed_dating_compatibility
speed_dating_interests(i1, i2) ==
    IF Cardinality(Range(i1) \cup Range(i2)) > 0
    THEN Rat(Cardinality(Range(i1) \cap Range(i2)), Cardinality(Range(i1) \cup Range(i2)))
    ELSE Zero


\* --------------------------------------------------- strings as sequences
LowerChar(c) ==
    CASE c = "B" -> "b" [] c = "W" -> "w" [] c = "D" -> "d"
      [] c = "Y" -> "y" [] c = "E" -> "e" [] c = "S" -> "s"
      [] c = "N" -> "n" [] c = "O" -> "o"
      [] OTHER -> c

RECURSIVE Lower(_)
Lower(text) ==
    IF text = <<>> THEN <<>>
    ELSE <<LowerChar(Head(text))>> \o Lower(Tail(text))

IsSubstring(word, text) ==
    \E i \in 0..(Len(text) - Len(word)) : SubSeq(text, i + 1, i + Len(word)) = word

\* ------------------------------------------------- consent (users_data)
Responses == {<<"y", "e", "s">>, <<"Y", "E", "S">>, <<"Y", "e", "s">>,
              <<"n", "o">>, <<"y">>, <<>>}

IsYes(response) == Lower(response) = <<"y", "e", "s">>

\* the two dictionaries after get_user_geolocation_consent(user_id)
ConsentAfterGet(user_id) ==
    IF user_id \notin DOMAIN users_consent
    THEN Put(users_consent, user_id, FALSE) ELSE users_consent

UserDataAfterGet(user_id) ==
    IF user_id \notin DOMAIN users_consent /\ user_id \notin DOMAIN user_data
    THEN Put(user_data, user_id, DefaultUserRecord) ELSE user_data

get_user_geolocation_consent(user_id) ==
    /\ users_consent' = ConsentAfterGet(user_id)
    /\ user_data' = UserDataAfterGet(user_id)
    /\ result' = Call("get_user_geolocation_consent", <<user_id>>, "return",
                      ConsentAfterGet(user_id)[user_id], <<>>, <<>>)
    /\ UNCHANGED <<blocked_users, locations, meetings, user_flags, flag_calls>>

set_user_geolocation_consent(user_id, consent) ==
    /\ users_consent' = Put(users_consent, user_id, consent)
    /\ result' = Call("set_user_geolocation_consent", <<user_id, consent>>,
                      "return", None, <<>>, <<>>)
    /\ UNCHANGED <<user_data, blocked_users, locations, meetings,
                   user_flags, flag_calls>>

request_user_geolocation_consent(user_id, response) ==
    /\ users_consent' = Put(users_consent, user_id, IsYes(response))
    /\ result' = Call("request_user_geolocation_consent", <<user_id>>, "return",
                      IsYes(response), <<"This app needs access">>,
                      << <<"input", response>> >>)
    /\ UNCHANGED <<user_data, blocked_users, locations, meetings,
                   user_flags, flag_calls>>

\* variant: the answer to the consent request is ignored
ConsentRefused_ignored(consent, granted) == FALSE
\* save_user_geolocation returns False when consent is not held and the
\* request for it is not granted
ConsentRefused(consent, granted) == ~consent /\ ~granted

save_user_geolocation(user_id, latitude, longitude, response) ==
    LET consent == ConsentAfterGet(user_id)[user_id]
        granted == IsYes(response)
        asked == << <<"get_consent", consent>>, <<"input", response>> >>
    IN  /\ user_data' = UserDataAfterGet(user_id)
        /\ users_consent' =
              IF consent THEN ConsentAfterGet(user_id)
              ELSE Put(ConsentAfterGet(user_id), user_id, granted)
        /\ result' =
              IF consent
              THEN Call("save_user_geolocation", <<user_id, latitude, longitude>>,
                        "return", TRUE, <<"Updating geolocation">>,
                        << <<"get_consent", consent>> >>)
              ELSE IF ConsentRefused(consent, granted)
              THEN Call("save_user_geolocation", <<user_id, latitude, longitude>>,
                        "return", FALSE,
                        <<"This app needs access", "Warning: Location not saved.">>,
                        asked)
              ELSE Call("save_user_geolocation", <<user_id, latitude, longitude>>,
                        "return", TRUE,
                        <<"This app needs access", "Updating geolocation">>, asked)
        /\ UNCHANGED <<blocked_users, locations, meetings, user_flags, flag_calls>>

\* ------------------------------------------------- roster (virtual_meetings)
create_meeting(users) ==
    LET meeting_id == Cardinality(DOMAIN meetings) + 1
    IN  /\ Cardinality(DOMAIN meetings) < MaxMeetings
        /\ meetings' = Put(meetings, meeting_id, users)
        /\ result' = Call("create_meeting", <<users>>, "return", meeting_id, <<>>, <<>>)
        /\ UNCHANGED <<user_data, users_consent, blocked_users, locations,
                       user_flags, flag_calls>>

join_meeting(meeting_id, user_id) ==
    /\ IF meeting_id \in DOMAIN meetings
       THEN /\ Len(meetings[meeting_id]) < MaxParticipants
            /\ meetings' = Put(meetings, meeting_id, Append(meetings[meeting_id], user_id))
            /\ result' = Call("join_meeting", <<meeting_id, user_id>>, "return", None,
                              <<>>, <<>>)
       ELSE /\ meetings' = meetings
            /\ result' = Call("join_meeting", <<meeting_id, user_id>>, "return", None,
                              <<"Error: Meeting not found.">>, <<>>)
    /\ UNCHANGED <<user_data, users_consent, blocked_users, locations,
                   user_flags, flag_calls>>

end_meeting(meeting_id) ==
    /\ IF meeting_id \in DOMAIN meetings
       THEN /\ meetings' = Del(meetings, meeting_id)
            /\ result' = Call("end_meeting", <<meeting_id>>, "return", None, <<>>, <<>>)
       ELSE /\ meetings' = meetings
            /\ result' = Call("end_meeting", <<meeting_id>>, "return", None,
                              <<"Error: Meeting not found.">>, <<>>)
    /\ UNCHANGED <<user_data, users_consent, blocked_users, locations,
                   user_flags, flag_calls>>

\* list.remove(x): drops the first occurrence of x
RemoveFirst(list, x) ==
    LET i == CHOOSE j \in 1..Len(list) :
                 list[j] = x /\ \A k \in 1..(j - 1) : list[k] # x
    IN  SubSeq(list, 1, i - 1) \o SubSeq(list, i + 1, Len(list))

remove_user_from_meeting(meeting_id, user_id) ==
    /\ IF meeting_id \in DOMAIN meetings
       THEN IF user_id \in Range(meetings[meeting_id])
            THEN /\ meetings' = Put(meetings, meeting_id,
                                    RemoveFirst(meetings[meeting_id], user_id))
                 /\ result' = Call("remove_user_from_meeting", <<meeting_id, user_id>>,
                                   "return", None, <<>>, <<>>)
            ELSE /\ meetings' = meetings
                 /\ result' = Call("remove_user_from_meeting", <<meeting_id, user_id>>,
                                   "return", None,
                                   <<"Error: User not found in meeting.">>, <<>>)
       ELSE /\ meetings' = meetings
            /\ result' = Call("remove_user_from_meeting", <<meeting_id, user_id>>,
                              "return", None, <<>>, <<>>)
    /\ UNCHANGED <<user_data, users_consent, blocked_users, locations,
                   user_flags, flag_calls>>


\* ------------------------------------------------------------ moderation
DangerThreshold == 3

HasFlags(user_id) == \E i \in 1..Len(user_flags) : user_flags[i].id = user_id
FlagIndex(user_id) == CHOOSE i \in 1..Len(user_flags) : user_flags[i].id = user_id
FlagsOf(user_id) == IF HasFlags(user_id) THEN user_flags[FlagIndex(user_id)].flags ELSE 0

\* variant: a strict comparison with the threshold
IsDangerous_strict(flags) == flags > DangerThreshold
IsDangerous(flags) == flags >= DangerThreshold

\* user_flags after flag_user(user_id): the entry is created at 0 when
\* missing, then incremented
FlagsAfter(user_id) ==
    LET created == IF HasFlags(user_id) THEN user_flags
                   ELSE Append(user_flags, [id |-> user_id, flags |-> 0])
    IN  [i \in 1..Len(created) |->
            IF created[i].id = user_id
            THEN [id |-> user_id, flags |-> created[i].flags + 1]
            ELSE created[i]]

FlagsIn(flagseq, user_id) ==
    LET i == CHOOSE j \in 1..Len(flagseq) : flagseq[j].id = user_id
    IN  flagseq[i].flags

flag_user(user_id) ==
    /\ FlagsOf(user_id) < MaxFlags
    /\ user_flags' = FlagsAfter(user_id)
    /\ flag_calls' = [flag_calls EXCEPT ![user_id] = @ + 1]
    /\ result' = Call("flag_user", <<user_id>>, "return",
                      IsDangerous(FlagsIn(FlagsAfter(user_id), user_id)), <<>>, <<>>)
    /\ UNCHANGED <<user_data, users_consent, blocked_users, locations, meetings>>

RECURSIVE DangerousFrom(_, _)
DangerousFrom(flagseq, i) ==
    IF i > Len(flagseq) THEN <<>>
    ELSE IF IsDangerous(flagseq[i].flags)
    THEN <<flagseq[i].id>> \o DangerousFrom(flagseq, i + 1)
    ELSE DangerousFrom(flagseq, i + 1)

dangerous_users == DangerousFrom(user_flags, 1)

get_dangerous_users ==
    /\ result' = Call("get_dangerous_users", <<>>, "return", dangerous_users, <<>>, <<>>)
    /\ UNCHANGED <<user_data, users_consent, blocked_users, locations, meetings,
                   user_flags, flag_calls>>

BadWordStem == <<"b", "a", "d", "w", "o", "r", "d">>
bad_words == <<BadWordStem \o <<"1">>, BadWordStem \o <<"2">>, BadWordStem \o <<"3">>>>

\* pieces of messages: a blocklisted word in mixed case, two blocklisted
\* words in one piece, and the two halves of a blocklisted word
Pieces == {<<"B", "a", "d", "W", "o", "r", "d", "1">>,
           BadWordStem \o <<"2", "B", "A", "D">> \o BadWordStem \o <<"1">>,
           <<"b", "a", "d", "w", "o", "r">>,
           <<"D", "3">>}

RECURSIVE TextsUpTo(_)
TextsUpTo(n) ==
    IF n = 0 THEN {<<>>}
    ELSE LET shorter == TextsUpTo(n - 1)
         IN  shorter \cup {t \o p : t \in shorter, p \in Pieces}

Texts == TextsUpTo(MaxPieces)

InappropriateReason == "Inappropriate language used."

\* variant: the loop goes on after a match instead of returning
RECURSIVE ModerateFrom_noreturn(_, _, _)
ModerateFrom_noreturn(i, text, sender_id) ==
    IF i > Len(bad_words) THEN [ret |-> TRUE, calls |-> <<>>]
    ELSE IF IsSubstring(bad_words[i], Lower(text))
    THEN [ret |-> FALSE,
          calls |-> << <<"block_user", sender_id>> >>
                    \o ModerateFrom_noreturn(i + 1, text, sender_id).calls]
    ELSE ModerateFrom_noreturn(i + 1, text, sender_id)

\* the loop of moderate_text from the i-th blocklisted word on: the value
\* returned and the block_user calls made
RECURSIVE ModerateFrom(_, _, _)
ModerateFrom(i, text, sender_id) ==
    IF i > Len(bad_words) THEN [ret |-> TRUE, calls |-> <<>>]
    ELSE IF IsSubstring(bad_words[i], Lower(text))
    THEN [ret |-> FALSE, calls |-> << <<"block_user", sender_id>> >>]
    ELSE ModerateFrom(i + 1, text, sender_id)

RECURSIVE ApplyBlocks(_, _, _)
ApplyBlocks(blocked, calls, i) ==
    IF i > Len(calls) THEN blocked
    ELSE ApplyBlocks(Put(blocked, calls[i][2], InappropriateReason), calls, i + 1)

moderate_text(text, sender_id, recipient_id) ==
    LET outcome == ModerateFrom(1, text, sender_id)
    IN  /\ blocked_users' = ApplyBlocks(blocked_users, outcome.calls, 1)
        /\ result' = Call("moderate_text", <<text, sender_id>>, "return",
                          outcome.ret, <<>>, outcome.calls)
        /\ UNCHANGED <<user_data, users_consent, locations, meetings,
                       user_flags, flag_calls>>

Reasons == {InappropriateReason, "spam"}

block_user(user_id, reason) ==
    /\ blocked_users' = Put(blocked_users, user_id, reason)
    /\ result' = Call("block_user", <<user_id, reason>>, "return", None, <<>>, <<>>)
    /\ UNCHANGED <<user_data, users_consent, locations, meetings,
                   user_flags, flag_calls>>

is_user_blocked(user_id) ==
    /\ result' = Call("is_user_blocked", <<user_id>>, "return",
                      user_id \in DOMAIN blocked_users, <<>>, <<>>)
    /\ UNCHANGED <<user_data, users_consent, blocked_users, locations, meetings,
                   user_flags, flag_calls>>

unblock_user(user_id) ==
    /\ IF user_id \in DOMAIN blocked_users
       THEN /\ blocked_users' = Del(blocked_users, user_id)
            /\ result' = Call("unblock_user", <<user_id>>, "return", None, <<>>, <<>>)
       ELSE /\ blocked_users' = blocked_users
            /\ result' = Call("unblock_user", <<user_id>>, "return", None,
                              <<"Error: not currently blocked.">>, <<>>)
    /\ UNCHANGED <<user_data, users_consent, locations, meetings,
                   user_flags, flag_calls>>

\* the two interest-similarity computations applied to a pair of tag lists
InitSimilarity ==
    /\ user_data = EmptyDict
    /\ users_consent = EmptyDict
    /\ blocked_users = EmptyDict
    /\ locations = EmptyDict
    /\ meetings = EmptyDict
    /\ user_flags = <<>>
    /\ flag_calls = [u \in Users |-> 0]
    /\ \E a, b \in InterestLists :
          result = Call("inputs", <<a, b>>, "return", None, <<>>, <<>>)

compare_interests_call ==
    /\ Len(result.args) = 2
    /\ result' = Call("compare_interests", result.args, "return",
                      compare_interests(result.args[1], result.args[2]), <<>>, <<>>)
    /\ UNCHANGED <<user_data, users_consent, blocked_users, locations, meetings,
                   user_flags, flag_calls>>

speed_dating_interests_call ==
    /\ Len(result.args) = 2
    /\ result' = Call("speed_dating_interests", result.args, "return",
                      speed_dating_interests(result.args[1], result.args[2]), <<>>, <<>>)
    /\ UNCHANGED <<user_data, users_consent, blocked_users, locations, meetings,
                   user_flags, flag_calls>>

\* --------------------------------------------------------- specifications
NextDirectory ==
    \/ \E u \in Users, info \in UserInfos : create_user(u, info)
    \/ \E u \in Users, lat \in Latitudes : update_user_location(u, lat)

NextScore ==
    \/ NextDirectory
    \/ \E user1, user2 \in UserObjects : get_meeting_compatibility_geo(user1, user2)
    \/ \E u1, u2 \in Users, t \in TraitValues : get_meeting_compatibility_virtual(u1, u2, t)

NextSimilarity ==
    \/ compare_interests_call
    \/ speed_dating_interests_call

NextConsent ==
    \/ \E u \in Users : get_user_geolocation_consent(u)
    \/ \E u \in Users, c \in BOOLEAN : set_user_geolocation_consent(u, c)
    \/ \E u \in Users, r \in Responses : request_user_geolocation_consent(u, r)
    \/ \E u \in Users, lat \in Latitudes, r \in Responses :
          save_user_geolocation(u, lat, 0, r)

NextRoster ==
    \/ \E users \in ParticipantLists : create_meeting(users)
    \/ \E m \in MeetingIds, u \in Users : join_meeting(m, u)
    \/ \E m \in MeetingIds, u \in Users : remove_user_from_meeting(m, u)
    \/ \E m \in MeetingIds : end_meeting(m)

NextSchedule ==
    \/ NextDirectory
    \/ \E u1, u2 \in Users, h \in RateHundredths : schedule_meeting(u1, u2, Rat(h, 100))

NextFlags ==
    \/ \E u \in Users : flag_user(u)
    \/ get_dangerous_users

NextText ==
    \/ \E text \in Texts, s \in Users :
          \E r \in Users \ {s} : moderate_text(text, s, r)
    \/ \E u \in Users, reason \in Reasons : block_user(u, reason)
    \/ \E u \in Users : unblock_user(u)
    \/ \E u \in Users : is_user_blocked(u)

Next ==
    \/ NextScore
    \/ NextSchedule
    \/ NextRoster
    \/ NextSimilarity
    \/ NextConsent
    \/ NextFlags
    \/ NextText

Spec == Init /\ [][Next]_vars
SpecScore == Init /\ [][NextScore]_vars
SpecSimilarity == InitSimilarity /\ [][NextSimilarity]_vars
SpecConsent == Init /\ [][NextConsent]_vars
SpecSchedule == Init /\ [][NextSchedule]_vars
SpecRoster == Init /\ [][NextRoster]_vars
SpecFlags == Init /\ [][NextFlags]_vars
SpecText == Init /\ [][NextText]_vars


\* ------------------------------------------------------------ properties
CompatibilityOps == {"geo_compatibility", "virtual_compatibility"}

\* C1: the composed score returned by get_meeting_compatibility, in the
\* geolocation and in the virtual-meetings implementation, lies in [0, 1]
\* for every pair of users and every value of the component scorers.
C1_ScoreInUnitInterval ==
    result.op \in CompatibilityOps =>
        /\ result.kind = "return"
        /\ RatLE(Zero, result.value)
        /\ RatLE(result.value, One)

\* C2: when both locations resolve and compare_psychological_traits yields
\* None, get_meeting_compatibility completes and returns
\* proximity * 0.3 + interests * 0.4 + 0 * 0.3.
C2_TraitNoneTolerated ==
    (/\ result.op = "geo_compatibility"
     /\ result.args[1] \in DOMAIN locations
     /\ result.args[2] \in DOMAIN locations
     /\ Len(result.calls) = 3
     /\ result.calls[3][2] = None)
    => /\ result.kind = "return"
       /\ RatEq(result.value,
                RatAdd(RatMul(result.calls[1][2], <<3, 10>>),
                       RatMul(result.calls[2][2], <<4, 10>>)))

\* C3: if the record or location of either user cannot be resolved,
\* get_meeting_compatibility returns exactly 0, raises nothing and
\* evaluates no component scorer, whichever user is the missing one, in
\* both implementations.
C3_MissingUserScoresZero ==
    /\ (/\ result.op = "geo_compatibility"
        /\ \E k \in 1..2 : result.args[k] \notin DOMAIN locations)
       => (result.kind = "return" /\ result.value = <<0, 1>> /\ result.calls = <<>>)
    /\ (/\ result.op = "virtual_compatibility"
        /\ \E k \in 1..2 : result.args[k] \notin DOMAIN user_data)
       => (result.kind = "return" /\ result.value = <<0, 1>> /\ result.calls = <<>>)

C3_Witness ==
    /\ result.op = "geo_compatibility"
    /\ result.args[1] \in DOMAIN locations
    /\ result.args[2] \notin DOMAIN locations
    /\ result.kind = "return"
    /\ result.value = <<0, 1>>

C5_SimilarityIsJaccardOrHalf ==
    result.op \in {"compare_interests", "speed_dating_interests"} =>
        LET A == Range(result.args[1])
            B == Range(result.args[2])
        IN  IF A \cup B = {}
            THEN RatEq(result.value, <<1, 2>>)
            ELSE RatEq(result.value, <<Cardinality(A \cap B), Cardinality(A \cup B)>>)

FlaggedThrice == {u \in Users : flag_calls[u] >= 3}

C6_FlagState ==
    /\ result.op = "flag_user" =>
          (result.value <=> flag_calls[result.args[1]] >= 3)
    /\ result.op = "get_dangerous_users" => Range(result.value) = FlaggedThrice
    /\ Range(dangerous_users) = FlaggedThrice

\* C6: flag_user(u) returns True exactly when it is at least the third
\* flag_user call made for u, whatever calls were made for other ids, and
\* from then on u stays in get_dangerous_users(), which holds exactly the
\* ids flagged three or more times.
C6_ThirdFlagDangerous ==
    /\ []C6_FlagState
    /\ [][\A u \in Range(dangerous_users) : u \in Range(dangerous_users')]_vars

C6_Witness ==
    /\ result.op = "flag_user"
    /\ result.value = TRUE
    /\ flag_calls[result.args[1]] = 3
    /\ \E v \in Users : v # result.args[1] /\ flag_calls[v] = 2
    /\ dangerous_users = <<result.args[1]>>

\* C7: join_meeting, remove_user_from_meeting and end_meeting called with a
\* meeting_id that is not in the roster raise nothing, report an error and
\* leave the roster unchanged.
C7_UnknownMeetingReported ==
    [][(/\ result'.op \in {"join_meeting", "remove_user_from_meeting", "end_meeting"}
        /\ result'.args[1] \notin DOMAIN meetings)
       => /\ result'.kind = "return"
          /\ result'.out # <<>>
          /\ meetings' = meetings]_vars

\* C8: save_user_geolocation returns True only if the consent stored for
\* the user is True when it returns; when consent is not held and the
\* request for it is declined it returns False and the stored consent is
\* False.
C8_NoSaveWithoutConsent ==
    [][result'.op = "save_user_geolocation" =>
          LET u == result'.args[1]
              held == u \in DOMAIN users_consent /\ users_consent[u]
              answer == result'.calls[Len(result'.calls)][2]
          IN  /\ result'.value =>
                    (u \in DOMAIN users_consent' /\ users_consent'[u] = TRUE)
              /\ ~held =>
                    /\ Len(result'.calls) = 2
                    /\ Lower(answer) # <<"y", "e", "s">> =>
                          /\ result'.value = FALSE
                          /\ u \in DOMAIN users_consent'
                          /\ users_consent'[u] = FALSE]_vars

C8_Witness ==
    /\ result.op = "save_user_geolocation"
    /\ result.value = FALSE
    /\ Len(result.calls) = 2
    /\ result.calls[2][2] = <<"n", "o">>
    /\ users_consent[result.args[1]] = FALSE

HasBadWord(text) ==
    \E k \in 1..Len(bad_words) : IsSubstring(bad_words[k], Lower(text))

\* C9: moderate_text returns False exactly when the lower-cased text
\* contains a blocklisted word; then block_user is invoked once, on the
\* sender, and on nobody else; otherwise it returns True and the
\* blocked-user table is unchanged.
C9_ModerateTextBlocksSenderOnce ==
    [][result'.op = "moderate_text" =>
          LET text == result'.args[1]
              sender == result'.args[2]
          IN  /\ (result'.value = FALSE) <=> HasBadWord(text)
              /\ HasBadWord(text) =>
                    /\ result'.calls = << <<"block_user", sender>> >>
                    /\ blocked_users' = Put(blocked_users, sender, InappropriateReason)
              /\ ~HasBadWord(text) =>
                    /\ result'.value = TRUE
                    /\ result'.calls = <<>>
                    /\ blocked_users' = blocked_users]_vars

C9_Witness ==
    /\ result.op = "moderate_text"
    /\ result.value = FALSE
    /\ result.args[1] # Lower(result.args[1])
    /\ IsSubstring(bad_words[1], Lower(result.args[1]))
    /\ IsSubstring(bad_words[2], Lower(result.args[1]))
    /\ DOMAIN blocked_users = {result.args[2]}

\* C10: create_meeting returns a meeting id that was not in the roster
\* before the call, adds exactly that one meeting and leaves every
\* existing meeting and its participant list unchanged.
C10_CreateAddsFreshMeeting ==
    [][result'.op = "create_meeting" =>
          /\ result'.value \notin DOMAIN meetings
          /\ DOMAIN meetings' = DOMAIN meetings \cup {result'.value}
          /\ \A m \in DOMAIN meetings : meetings'[m] = meetings[m]]_vars

====
